---- MODULE Spec2Model ----
(***************************************************************************)
(* VeloraPay backend (src/backend/server.py): the wallet top-up and the    *)
(* peer transfer handlers over the MongoDB collections `users` and         *)
(* `transactions`.  Every awaited database call of a handler is one step;  *)
(* the handler's local computation between two awaits belongs to the step  *)
(* of the database call that follows it.  Amounts are whole currency units.*)
(***************************************************************************)
EXTENDS Integers, Sequences, FiniteSets, TLC

\* Number of requests the clients submit in one behaviour.
MaxRequests == 2

\* register(): "wallet_balance": 1000.0
StartingBalance == 1000

\* The accounts registered before the first request, in insertion order.
Registered == <<"alice", "bob", "carol">>

\* Usernames a client may name as recipient; the last one has no account.
RecipientNames == {"alice", "bob", "carol", "nonexistentuser"}

\* The accounts whose owners are logged in and submit requests.
Clients == {"alice", "bob"}

\* Amounts a client may submit: an invalid one and the whole starting balance
\* (a part of a balance that has grown, more than one that has shrunk).
Amounts == {0, 1000}

Reqs == 1..MaxRequests

VARIABLES
    users,          \* db.users: sequence of documents, _id = position
    transactions,   \* db.transactions: sequence of documents, _id = position
    pc,             \* per request: the await its handler is suspended at
    request,        \* per request: endpoint, token subject and body
    current_user,   \* per request: the document get_current_user returned
    recipient,      \* per request: the document send_money's find_one returned
    response,       \* per request: the HTTP response
    writes,         \* history: database writes the request has performed
    concurrent,     \* history: pairs of requests that were in flight together
    before,         \* history: the collections when the request arrived
    after,          \* history: the collections when the request returned
    prewrite,       \* history: the caller's stored balance just before the
                    \* request's first balance write
    now             \* datetime.utcnow() as the database stores it

vars == <<users, transactions, pc, request, current_user, recipient, response,
          writes, concurrent, before, after, prewrite, now>>

-----------------------------------------------------------------------------
\* Documents and database primitives

\* find_one's result when no document matches (Python None).
None == [id |-> 0, username |-> "", wallet_balance |-> 0]

NoRequest == [endpoint |-> "", sub |-> "", amount |-> 0, recipient_username |-> ""]

NoResponse == [status_code |-> 0, detail |-> "", new_balance |-> 0]

NoStore == [users |-> <<>>, transactions |-> <<>>]

\* db.users.find_one({"username": username}): the first matching document.
find_one(coll, username) ==
    LET hits == {i \in DOMAIN coll : coll[i].username = username}
    IN  IF hits = {} THEN None
        ELSE LET i == CHOOSE k \in hits : \A j \in hits : k <= j
             IN  [id |-> i, username |-> coll[i].username,
                  wallet_balance |-> coll[i].wallet_balance]

\* db.users.update_one({"_id": id}, {"$set": {"wallet_balance": new_balance}})
update_one(coll, id, new_balance) ==
    [coll EXCEPT ![id].wallet_balance = new_balance]

\* An insert that skips a document equal to one already stored.
insert_one_dedup(coll, doc) ==
    IF \E i \in DOMAIN coll : coll[i] = doc THEN coll ELSE Append(coll, doc)

\* The collection replaced by the new document instead of extended by it.
insert_one_replace(coll, doc) == <<doc>>

\* db.transactions.insert_one(transaction) (also db.users.insert_one)
insert_one(coll, doc) == Append(coll, doc)

\* get_profile's body for the caller `username`: the balance it reports.
get_profile(coll, username) ==
    LET user == find_one(coll, username)
    IN  [username |-> user.username, wallet_balance |-> user.wallet_balance]

\* HTTPException(status_code, detail)
HTTPException(status_code, detail) ==
    [status_code |-> status_code, detail |-> detail, new_balance |-> 0]

\* The {"success": True, "new_balance": ...} body of a 200 response.
Success(new_balance) ==
    [status_code |-> 200, detail |-> "success", new_balance |-> new_balance]

-----------------------------------------------------------------------------
\* Handler-local computations

\* The balance replaced by the amount instead of raised by it.
topup_new_balance_amount(cu, amount) == amount

\* topup_wallet: new_balance = current_user["wallet_balance"] + amount
topup_new_balance(cu, amount) == cu.wallet_balance + amount

\* send_money: sender_new_balance = current_user["wallet_balance"] - amount
sender_new_balance(cu, amount) == cu.wallet_balance - amount

\* The recipient's balance replaced by the amount instead of raised by it.
recipient_new_balance_overwrite(rcp, amount) == amount

\* send_money: recipient_new_balance = recipient["wallet_balance"] + amount
recipient_new_balance(rcp, amount) == rcp.wallet_balance + amount

\* A top-up that accepts every amount.
topup_checks_none(amount) == NoResponse

\* topup_wallet's validation: the exception raised, or NoResponse.
topup_checks(amount) ==
    IF amount <= 0 THEN HTTPException(400, "Amount must be positive")
    ELSE NoResponse

\* send_money's validation with the balance check left out.
send_money_checks_no_balance(amount, cu, rcp) ==
    IF amount <= 0 THEN HTTPException(400, "Amount must be positive")
    ELSE IF rcp = None THEN HTTPException(404, "Recipient not found")
    ELSE IF rcp.id = cu.id
         THEN HTTPException(400, "Cannot send money to yourself")
    ELSE NoResponse

\* send_money's validation in the order the specification lists the checks.
send_money_checks_spec_order(amount, cu, rcp) ==
    IF amount <= 0 THEN HTTPException(400, "Amount must be positive")
    ELSE IF rcp = None THEN HTTPException(404, "Recipient not found")
    ELSE IF rcp.id = cu.id
         THEN HTTPException(400, "Cannot send money to yourself")
    ELSE IF cu.wallet_balance < amount
         THEN HTTPException(400, "Insufficient balance")
    ELSE NoResponse

\* send_money's validation with the self-transfer check left out.
send_money_checks_no_self(amount, cu, rcp) ==
    IF amount <= 0 THEN HTTPException(400, "Amount must be positive")
    ELSE IF cu.wallet_balance < amount
         THEN HTTPException(400, "Insufficient balance")
    ELSE IF rcp = None THEN HTTPException(404, "Recipient not found")
    ELSE NoResponse

\* send_money's validation with a balance check that also rejects a transfer
\* of the whole balance.
send_money_checks_keep_one(amount, cu, rcp) ==
    IF amount <= 0 THEN HTTPException(400, "Amount must be positive")
    ELSE IF cu.wallet_balance <= amount
         THEN HTTPException(400, "Insufficient balance")
    ELSE IF rcp = None THEN HTTPException(404, "Recipient not found")
    ELSE IF rcp.id = cu.id
         THEN HTTPException(400, "Cannot send money to yourself")
    ELSE NoResponse

\* send_money's validation in the order of the code: the exception raised,
\* or NoResponse when every check passes.  rcp is the result of the
\* recipient lookup, which the code performs only after the first two checks.
send_money_checks(amount, cu, rcp) ==
    IF amount <= 0 THEN HTTPException(400, "Amount must be positive")
    ELSE IF cu.wallet_balance < amount
         THEN HTTPException(400, "Insufficient balance")
    ELSE IF rcp = None THEN HTTPException(404, "Recipient not found")
    ELSE IF rcp.id = cu.id
         THEN HTTPException(400, "Cannot send money to yourself")
    ELSE NoResponse

\* "from_user": "system", the sender of a top-up record.  Account ids are
\* positive numbers here, so the sentinel is a number that is no account id.
System == -1

\* topup_wallet's transaction document.
topup_transaction(cu, amount, timestamp) ==
    [from_user |-> System, to_user |-> cu.id, amount |-> amount,
     type |-> "topup", status |-> "completed", timestamp |-> timestamp]

\* send_money's transaction document.
send_transaction(cu, rcp, amount, timestamp) ==
    [from_user |-> cu.id, to_user |-> rcp.id, amount |-> amount,
     type |-> "send", status |-> "completed", timestamp |-> timestamp]

\* One request handled with no other request in between: the accounts
\* afterwards and whether the request succeeded.
Handle(coll, req) ==
    LET cu == find_one(coll, req.sub)
        rcp == find_one(coll, req.recipient_username)
    IN  IF req.endpoint = "topup"
        THEN IF topup_checks(req.amount) # NoResponse
             THEN [users |-> coll, ok |-> FALSE]
             ELSE [users |-> update_one(coll, cu.id, topup_new_balance(cu, req.amount)),
                   ok |-> TRUE]
        ELSE IF send_money_checks(req.amount, cu, rcp) # NoResponse
             THEN [users |-> coll, ok |-> FALSE]
             ELSE [users |-> update_one(
                                update_one(coll, cu.id, sender_new_balance(cu, req.amount)),
                                rcp.id, recipient_new_balance(rcp, req.amount)),
                   ok |-> TRUE]

\* Every arrangement of the elements of S in a sequence.
Orders(S) ==
    {o \in [1..Cardinality(S) -> S] :
        \A i, j \in 1..Cardinality(S) : i # j => o[i] # o[j]}

\* A filter that matches only the records the user sent.
find_transactions_sent(coll, user_id) ==
    {i \in DOMAIN coll : coll[i].from_user = user_id}

\* get_transaction_history: the filter of its find().
find_transactions(coll, user_id) ==
    {i \in DOMAIN coll : coll[i].from_user = user_id \/ coll[i].to_user = user_id}

\* .sort("timestamp", -1): every order of the documents `ids` with timestamps
\* descending.  The database leaves the order of equal timestamps open.
sort_timestamp_desc(coll, ids) ==
    {o \in Orders(ids) :
        \A k \in 1..(Len(o) - 1) : coll[o[k]].timestamp >= coll[o[k + 1]].timestamp}

\* The length given to to_list.  The code gives 1000; the model keeps the
\* ledger short (MaxLedger) and scales the length down with it, so that a
\* ledger longer than the length is among the cases.
HistoryLimit == 2

\* to_list(length): at most `length` documents of the cursor.
to_list(cursor, length) ==
    SubSeq(cursor, 1, IF Len(cursor) < length THEN Len(cursor) ELSE length)

\* A viewer that tags its own sent records "receive" and the others "send".
perspective_swapped(txn, user_id) ==
    IF txn.from_user = user_id
    THEN IF txn.type # "topup" THEN "receive" ELSE "topup"
    ELSE "send"

\* get_transaction_history: the transaction type from the user's perspective.
perspective(txn, user_id) ==
    IF txn.from_user = user_id
    THEN IF txn.type # "topup" THEN "send" ELSE "topup"
    ELSE "receive"

\* get_transaction_history: the result list for the documents `ids` in order.
history_result(coll, ids, user_id) ==
    [k \in 1..Len(ids) |->
        [id |-> ids[k], from_user |-> coll[ids[k]].from_user,
         to_user |-> coll[ids[k]].to_user, amount |-> coll[ids[k]].amount,
         type |-> perspective(coll[ids[k]], user_id),
         status |-> coll[ids[k]].status, timestamp |-> coll[ids[k]].timestamp]]

\* The 200 response of get_transaction_history.
HistoryResponse(result) ==
    [status_code |-> 200, detail |-> "success", new_balance |-> 0, history |-> result]

\* One top-up or transfer served with no other request in between, its
\* record stamped `timestamp`: the collections afterwards.
Serve(store, req, timestamp) ==
    LET cu == find_one(store.users, req.sub)
        rcp == find_one(store.users, req.recipient_username)
        h == Handle(store.users, req)
    IN  IF ~h.ok THEN store
        ELSE [users |-> h.users,
              transactions |-> insert_one(store.transactions,
                  IF req.endpoint = "topup"
                  THEN topup_transaction(cu, req.amount, timestamp)
                  ELSE send_transaction(cu, rcp, req.amount, timestamp))]

\* The operations of `run` served one after the other.
RECURSIVE ServeAll(_, _)
ServeAll(store, run) ==
    IF run = <<>> THEN store
    ELSE ServeAll(Serve(store, Head(run).req, Head(run).timestamp), Tail(run))

-----------------------------------------------------------------------------
\* History bookkeeping (observes the handlers, changes nothing they read)

InFlight(q) == pc[q] \notin {"idle", "done"}

Store == [users |-> users, transactions |-> transactions]

\* Request r takes a step: it overlaps every request in flight.
Overlap(r) ==
    concurrent' = concurrent \cup
        {p \in Reqs \X Reqs :
            /\ p[1] # p[2]
            /\ r \in {p[1], p[2]}
            /\ \A q \in {p[1], p[2]} \ {r} : InFlight(q)}

\* Request r returns `resp`.
Return(r, resp) ==
    /\ pc' = [pc EXCEPT ![r] = "done"]
    /\ response' = [response EXCEPT ![r] = resp]
    /\ after' = [after EXCEPT ![r] = [users |-> users', transactions |-> transactions']]

-----------------------------------------------------------------------------
\* Init: three registered accounts, no transaction, no request yet.

\* register(): "reputation_score": 75.0
StartingReputation == 75

\* A registration that creates the account with an empty wallet.
new_user_empty(username) ==
    [username |-> username, wallet_balance |-> 0, reputation_score |-> StartingReputation]

\* register's new_user document.
new_user(username) ==
    [username |-> username, wallet_balance |-> StartingBalance,
     reputation_score |-> StartingReputation]

\* db.users after the registrations: every account holds the starting balance.
InitUsers ==
    [i \in 1..Len(Registered) |->
        new_user(Registered[i])]

Init ==
    /\ users = InitUsers
    /\ transactions = <<>>
    /\ pc = [r \in Reqs |-> "idle"]
    /\ request = [r \in Reqs |-> NoRequest]
    /\ current_user = [r \in Reqs |-> None]
    /\ recipient = [r \in Reqs |-> None]
    /\ response = [r \in Reqs |-> NoResponse]
    /\ writes = [r \in Reqs |-> 0]
    /\ concurrent = {}
    /\ before = [r \in Reqs |-> NoStore]
    /\ after = [r \in Reqs |-> NoStore]
    /\ prewrite = [r \in Reqs |-> 0]
    /\ now = 0

-----------------------------------------------------------------------------
\* Actions

\* A request arrives (requests are numbered in arrival order) and the
\* dependency get_current_user reads the caller's document.  The token's
\* subject `sub` is the username of a logged-in account; recipients[sub] are
\* the usernames that caller may name.
Arrive(r, endpoints, subs, amounts, recipients) ==
    /\ pc[r] = "idle"
    /\ r > 1 => pc[r - 1] # "idle"
    /\ \E endpoint \in endpoints, sub \in subs :
       \E amount \in IF endpoint \in {"topup", "send"} THEN amounts ELSE {0} :
       \E recipient_username \in IF endpoint \in {"send", "search"} THEN recipients[sub] ELSE {""} :
          LET user == find_one(users, sub)
          IN  /\ request' = [request EXCEPT ![r] =
                    [endpoint |-> endpoint, sub |-> sub,
                     amount |-> amount, recipient_username |-> recipient_username]]
              /\ current_user' = [current_user EXCEPT ![r] = user]
              /\ before' = [before EXCEPT ![r] = Store]
              /\ UNCHANGED <<users, transactions, recipient, writes>>
              /\ IF user = None
                 THEN Return(r, HTTPException(401, "User not found"))
                 ELSE /\ pc' = [pc EXCEPT ![r] = "entered"]
                      /\ UNCHANGED <<response, after>>
    /\ Overlap(r)
    /\ UNCHANGED <<prewrite, now>>

\* The top-up and transfer requests of the logged-in clients.
get_current_user(r) ==
    Arrive(r, {"topup", "send"}, Clients, Amounts,
           [sub \in Clients |-> RecipientNames])

\* topup_wallet up to its first await: validate, then $set the new balance.
topup_wallet(r) ==
    /\ pc[r] = "entered"
    /\ request[r].endpoint = "topup"
    /\ LET err == topup_checks(request[r].amount)
       IN  IF err # NoResponse
           THEN /\ UNCHANGED <<users, transactions, writes, prewrite>>
                /\ Return(r, err)
           ELSE /\ users' = update_one(users, current_user[r].id,
                        topup_new_balance(current_user[r], request[r].amount))
                /\ writes' = [writes EXCEPT ![r] = @ + 1]
                /\ prewrite' = [prewrite EXCEPT ![r] =
                                    users[current_user[r].id].wallet_balance]
                /\ pc' = [pc EXCEPT ![r] = "updated"]
                /\ UNCHANGED <<transactions, response, after>>
    /\ UNCHANGED <<request, current_user, recipient, before>>
    /\ Overlap(r)
    /\ UNCHANGED now

\* topup_wallet: insert the transaction record and return.
topup_wallet_insert(r) ==
    /\ pc[r] = "updated"
    /\ request[r].endpoint = "topup"
    /\ transactions' = insert_one(transactions,
                           topup_transaction(current_user[r], request[r].amount, now))
    /\ writes' = [writes EXCEPT ![r] = @ + 1]
    /\ UNCHANGED <<users, request, current_user, recipient, before>>
    /\ Return(r, Success(topup_new_balance(current_user[r], request[r].amount)))
    /\ Overlap(r)
    /\ UNCHANGED <<prewrite, now>>

\* send_money with the sender's balance written before the recipient is
\* looked up: a request rejected for its recipient has already debited.
send_money_debit_first(r) ==
    /\ pc[r] = "entered"
    /\ request[r].endpoint = "send"
    /\ UNCHANGED <<transactions, request, current_user, before>>
    /\ LET rcp == find_one(users, request[r].recipient_username)
           err == send_money_checks(request[r].amount, current_user[r], rcp)
           late == err.status_code = 404 \/ err.detail = "Cannot send money to yourself"
       IN  IF err # NoResponse
           THEN /\ users' = IF late
                             THEN update_one(users, current_user[r].id,
                                      sender_new_balance(current_user[r], request[r].amount))
                             ELSE users
                /\ writes' = [writes EXCEPT ![r] = IF late THEN @ + 1 ELSE @]
                /\ UNCHANGED recipient
                /\ Return(r, err)
           ELSE /\ recipient' = [recipient EXCEPT ![r] = rcp]
                /\ pc' = [pc EXCEPT ![r] = "found"]
                /\ UNCHANGED <<users, writes, response, after>>
    /\ Overlap(r)
    /\ UNCHANGED <<prewrite, now>>

\* send_money up to and including the recipient lookup and the checks on it.
send_money(r) ==
    /\ pc[r] = "entered"
    /\ request[r].endpoint = "send"
    /\ UNCHANGED <<users, transactions, request, current_user, writes, before>>
    /\ LET rcp == find_one(users, request[r].recipient_username)
           err == send_money_checks(request[r].amount, current_user[r], rcp)
       IN  IF err # NoResponse
           THEN /\ UNCHANGED recipient
                /\ Return(r, err)
           ELSE /\ recipient' = [recipient EXCEPT ![r] = rcp]
                /\ pc' = [pc EXCEPT ![r] = "found"]
                /\ UNCHANGED <<response, after>>
    /\ Overlap(r)
    /\ UNCHANGED <<prewrite, now>>

\* send_money: $set the sender's balance.
send_money_update_sender(r) ==
    /\ pc[r] = "found"
    /\ users' = update_one(users, current_user[r].id,
                    sender_new_balance(current_user[r], request[r].amount))
    /\ writes' = [writes EXCEPT ![r] = @ + 1]
    /\ prewrite' = [prewrite EXCEPT ![r] = users[current_user[r].id].wallet_balance]
    /\ pc' = [pc EXCEPT ![r] = "debited"]
    /\ UNCHANGED <<transactions, request, current_user, recipient, response,
                   before, after>>
    /\ Overlap(r)
    /\ UNCHANGED now

\* The record inserted together with the recipient update instead of after it.
send_money_update_recipient_record(r) ==
    /\ pc[r] = "debited"
    /\ transactions' = insert_one(transactions,
                           send_transaction(current_user[r], recipient[r],
                                            request[r].amount, now))
    /\ pc' = [pc EXCEPT ![r] = "credited"]
    /\ UNCHANGED <<users, writes, request, current_user, recipient, response,
                   before, after>>
    /\ Overlap(r)
    /\ UNCHANGED <<prewrite, now>>

\* The recipient update made to wait while the recipient is itself a sender
\* between its two updates (accounts locked sender first, recipient second).
send_money_update_recipient_blocking(r) ==
    /\ pc[r] = "debited"
    /\ \A q \in Reqs \ {r} :
           ~(pc[q] = "debited" /\ current_user[q].id = recipient[r].id)
    /\ users' = update_one(users, recipient[r].id,
                    recipient_new_balance(recipient[r], request[r].amount))
    /\ writes' = [writes EXCEPT ![r] = @ + 1]
    /\ pc' = [pc EXCEPT ![r] = "credited"]
    /\ UNCHANGED <<transactions, request, current_user, recipient, response,
                   before, after>>
    /\ Overlap(r)
    /\ UNCHANGED <<prewrite, now>>

\* send_money: $set the recipient's balance.
send_money_update_recipient(r) ==
    /\ pc[r] = "debited"
    /\ users' = update_one(users, recipient[r].id,
                    recipient_new_balance(recipient[r], request[r].amount))
    /\ writes' = [writes EXCEPT ![r] = @ + 1]
    /\ pc' = [pc EXCEPT ![r] = "credited"]
    /\ UNCHANGED <<transactions, request, current_user, recipient, response,
                   before, after>>
    /\ Overlap(r)
    /\ UNCHANGED <<prewrite, now>>

\* send_money: insert the transaction record and return.
send_money_insert(r) ==
    /\ pc[r] = "credited"
    /\ transactions' = insert_one(transactions,
                           send_transaction(current_user[r], recipient[r],
                                            request[r].amount, now))
    /\ writes' = [writes EXCEPT ![r] = @ + 1]
    /\ UNCHANGED <<users, request, current_user, recipient, before>>
    /\ Return(r, Success(sender_new_balance(current_user[r], request[r].amount)))
    /\ Overlap(r)
    /\ UNCHANGED <<prewrite, now>>

Next ==
    \E r \in Reqs :
        \/ get_current_user(r)
        \/ topup_wallet(r)
        \/ topup_wallet_insert(r)
        \/ send_money(r)
        \/ send_money_update_sender(r)
        \/ send_money_update_recipient(r)
        \/ send_money_insert(r)

Spec == Init /\ [][Next]_vars

\* The steps of request r after its arrival.
Handler(r) ==
    \/ topup_wallet(r)
    \/ topup_wallet_insert(r)
    \/ send_money(r)
    \/ send_money_update_sender(r)
    \/ send_money_update_recipient(r)
    \/ send_money_insert(r)

\* Requests of the whole starting balance among the logged-in clients:
\* top-ups and transfers in both directions between them.
get_current_user_clients(r) ==
    Arrive(r, {"topup", "send"}, Clients, {StartingBalance},
           [sub \in Clients |-> Clients \ {sub}])

FairNext ==
    \E r \in Reqs : get_current_user_clients(r) \/ Handler(r)

\* The event loop resumes every handler whose database call has completed;
\* clients are not obliged to submit requests.
FairSpec ==
    Init /\ [][FairNext]_vars /\ \A r \in Reqs : WF_vars(Handler(r))

\* get_transaction_history, after get_current_user: find, sort, to_list and
\* tagging in one step; it writes nothing.
get_transaction_history(r) ==
    /\ pc[r] = "entered"
    /\ request[r].endpoint = "history"
    /\ UNCHANGED <<users, transactions, request, current_user, recipient, writes, before>>
    /\ \E cursor \in sort_timestamp_desc(transactions,
                        find_transactions(transactions, current_user[r].id)) :
          Return(r, HistoryResponse(history_result(transactions,
                        to_list(cursor, HistoryLimit), current_user[r].id)))
    /\ Overlap(r)
    /\ UNCHANGED <<prewrite, now>>

\* get_current_user for the requests of HistorySpec, which arrive one at a
\* time: a history request writes nothing, so overlapping them adds no case.
get_current_user_history(r) ==
    /\ \A q \in Reqs : ~InFlight(q)
    /\ Arrive(r, {"history"}, Clients, {0}, [sub \in Clients |-> {""}])

\* The longest ledger HistorySpec starts from.
MaxLedger == 3

\* The timestamps of the records HistorySpec starts from: a timestamp has
\* millisecond resolution, so two records can carry the same one.
Timestamps == {0, 1}

\* The top-ups and transfers that wrote the ledger HistorySpec starts from.
PriorRequests ==
    {[endpoint |-> "topup", sub |-> sub, amount |-> StartingBalance, recipient_username |-> ""] :
        sub \in Clients}
    \cup UNION {{[endpoint |-> "send", sub |-> sub, amount |-> StartingBalance, recipient_username |-> rcp] :
                    rcp \in Clients \ {sub}} : sub \in Clients}

\* Serial runs of at most MaxLedger operations, timestamps never decreasing
\* and no three operations within one millisecond.
PriorRuns ==
    UNION {{run \in [1..n -> [req : PriorRequests, timestamp : Timestamps]] :
                /\ \A k \in 1..(n - 1) : run[k].timestamp <= run[k + 1].timestamp
                /\ \A k \in 1..(n - 2) : run[k].timestamp < run[k + 2].timestamp} :
           n \in 0..MaxLedger}

\* The collections after a serial run of top-ups and transfers; no request
\* is in flight.
HistoryInit ==
    /\ \E run \in PriorRuns :
          /\ users = ServeAll([users |-> InitUsers, transactions |-> <<>>], run).users
          /\ transactions = ServeAll([users |-> InitUsers, transactions |-> <<>>], run).transactions
          /\ now = IF run = <<>> THEN 0 ELSE run[Len(run)].timestamp
    /\ pc = [r \in Reqs |-> "idle"]
    /\ request = [r \in Reqs |-> NoRequest]
    /\ current_user = [r \in Reqs |-> None]
    /\ recipient = [r \in Reqs |-> None]
    /\ response = [r \in Reqs |-> NoResponse]
    /\ writes = [r \in Reqs |-> 0]
    /\ concurrent = {}
    /\ before = [r \in Reqs |-> NoStore]
    /\ after = [r \in Reqs |-> NoStore]
    /\ prewrite = [r \in Reqs |-> 0]

HistoryNext ==
    \E r \in Reqs :
        \/ get_current_user_history(r)
        \/ get_transaction_history(r)

\* History requests against a ledger written by a serial run.
HistorySpec == HistoryInit /\ [][HistoryNext]_vars

\* The usernames registration is asked for: a new one and a taken one.
Usernames == {"dave", "alice"}

\* The 200 response of register.
RegisterResponse(user) ==
    [status_code |-> 200, detail |-> "success", new_balance |-> user.wallet_balance,
     user |-> user]

\* register, up to its first await: the request arrives (no token is needed)
\* and the username is looked up.
register(r) ==
    /\ pc[r] = "idle"
    /\ r > 1 => pc[r - 1] # "idle"
    /\ \E username \in Usernames :
          /\ request' = [request EXCEPT ![r] =
                [endpoint |-> "register", sub |-> "", amount |-> 0,
                 recipient_username |-> "", username |-> username]]
          /\ before' = [before EXCEPT ![r] = Store]
          /\ UNCHANGED <<users, transactions, current_user, recipient, writes>>
          /\ IF find_one(users, username) # None
             THEN Return(r, HTTPException(400, "Username already exists"))
             ELSE /\ pc' = [pc EXCEPT ![r] = "registering"]
                  /\ UNCHANGED <<response, after>>
    /\ Overlap(r)
    /\ UNCHANGED <<prewrite, now>>

\* register: the account is inserted and the token returned.
register_insert(r) ==
    /\ pc[r] = "registering"
    /\ users' = insert_one(users, new_user(request[r].username))
    /\ writes' = [writes EXCEPT ![r] = @ + 1]
    /\ UNCHANGED <<transactions, request, current_user, recipient, before>>
    /\ Return(r, RegisterResponse(new_user(request[r].username)))
    /\ Overlap(r)
    /\ UNCHANGED <<prewrite, now>>

\* get_current_user for the requests of RegisterSpec: top-ups and transfers
\* by an account that exists from the start and by one that has to register.
get_current_user_registered(r) ==
    Arrive(r, {"topup", "send"}, Clients \cup Usernames, {StartingBalance},
           [sub \in Clients \cup Usernames |-> (Clients \cup Usernames) \ {sub}])

RegisterNext ==
    \E r \in Reqs :
        \/ register(r)
        \/ register_insert(r)
        \/ get_current_user_registered(r)
        \/ Handler(r)

\* Registrations among top-ups and transfers.
RegisterSpec == Init /\ [][RegisterNext]_vars

\* The 200 response of get_profile.
ProfileResponse(user) ==
    [status_code |-> 200, detail |-> "success", new_balance |-> user.wallet_balance,
     user |-> user]

\* The 200 response of search_user.
SearchResponse(user) ==
    [status_code |-> 200, detail |-> "success", new_balance |-> 0,
     username |-> user.username]

\* A profile read that saves the user document it was given back to the store.
user_profile_save(r) ==
    /\ pc[r] = "entered"
    /\ request[r].endpoint = "profile"
    /\ users' = update_one(users, current_user[r].id, current_user[r].wallet_balance)
    /\ UNCHANGED <<transactions, request, current_user, recipient, writes, before>>
    /\ Return(r, ProfileResponse(current_user[r]))
    /\ Overlap(r)
    /\ UNCHANGED <<prewrite, now>>

\* get_profile (GET /user/profile), after get_current_user: the document
\* get_current_user read is returned.
user_profile(r) ==
    /\ pc[r] = "entered"
    /\ request[r].endpoint = "profile"
    /\ UNCHANGED <<users, transactions, request, current_user, recipient, writes, before>>
    /\ Return(r, ProfileResponse(current_user[r]))
    /\ Overlap(r)
    /\ UNCHANGED <<prewrite, now>>

\* search_user (GET /user/search/{username}), after get_current_user.
search_user(r) ==
    /\ pc[r] = "entered"
    /\ request[r].endpoint = "search"
    /\ UNCHANGED <<users, transactions, request, current_user, recipient, writes, before>>
    /\ LET user == find_one(users, request[r].recipient_username)
       IN  IF user = None
           THEN Return(r, HTTPException(404, "User not found"))
           ELSE Return(r, SearchResponse(user))
    /\ Overlap(r)
    /\ UNCHANGED <<prewrite, now>>

\* The tokens of ReadSpec: the clients' and one of no stored account.
Tokens == Clients \cup {"mallory"}

\* get_current_user for the read requests.
get_current_user_read(r) ==
    Arrive(r, {"profile", "search", "history"}, Tokens, {0},
           [sub \in Tokens |-> {"bob", "nonexistentuser"}])

ReadNext ==
    \E r \in Reqs :
        \/ get_current_user_read(r)
        \/ user_profile(r)
        \/ search_user(r)
        \/ get_transaction_history(r)
        \/ get_current_user_clients(r)
        \/ Handler(r)

\* Reads among top-ups and transfers.
ReadSpec == Init /\ [][ReadNext]_vars

\* Half the starting balance: an amount an account can send twice.
HalfBalance == StartingBalance \div 2

\* get_current_user for the requests of RetrySpec: top-ups and transfers of
\* half the starting balance among the logged-in clients.
get_current_user_retry(r) ==
    Arrive(r, {"topup", "send"}, Clients, {HalfBalance},
           [sub \in Clients |-> Clients \ {sub}])

RetryNext ==
    \E r \in Reqs : get_current_user_retry(r) \/ Handler(r)

\* Requests small enough to be repeated.
RetrySpec == Init /\ [][RetryNext]_vars

-----------------------------------------------------------------------------
\* Vocabulary of the properties

Done(r) == pc[r] = "done"

Ok(r) == Done(r) /\ response[r].status_code = 200

Rejected(r) == Done(r) /\ response[r].status_code # 200

IsSend(r) == request[r].endpoint = "send"

IsTopup(r) == request[r].endpoint = "topup"

\* No other request was in flight at any step of r.
Alone(r) == \A q \in Reqs : <<r, q>> \notin concurrent

\* Every request that has arrived has returned.
Quiescent == \A r \in Reqs : ~InFlight(r)

\* The error kinds of the specification, as the details the code raises.
InvalidAmount == "Amount must be positive"

InsufficientFunds == "Insufficient balance"

RecipientNotFound == "Recipient not found"

SelfTransfer == "Cannot send money to yourself"

\* The _id of the account that owns `username` (0: none).
IdOf(username) == find_one(users, username).id

RECURSIVE SumBalances(_)
SumBalances(coll) ==
    IF coll = <<>> THEN 0
    ELSE coll[Len(coll)].wallet_balance + SumBalances(SubSeq(coll, 1, Len(coll) - 1))

InitialSum == Len(Registered) * StartingBalance

RECURSIVE SumOver(_, _)
SumOver(S, f) ==
    IF S = {} THEN 0
    ELSE LET x == CHOOSE y \in S : TRUE IN f[x] + SumOver(S \ {x}, f)

-----------------------------------------------------------------------------
\* C1: in every reachable state, under any interleaving of top-ups and
\* transfers, every account's stored balance is >= 0.
NonNegativeBalance ==
    \A i \in DOMAIN users : users[i].wallet_balance >= 0

\* Two transfers of the sender's whole balance were in flight together, both
\* returned success, and the sender's balance is 0.
NonNegativeBalanceWitness ==
    \E r1, r2 \in Reqs :
        /\ r1 # r2 /\ <<r1, r2>> \in concurrent
        /\ Ok(r1) /\ Ok(r2) /\ IsSend(r1) /\ IsSend(r2)
        /\ request[r1].sub = request[r2].sub
        /\ request[r1].amount = current_user[r1].wallet_balance
        /\ request[r2].amount = current_user[r2].wallet_balance
        /\ users[current_user[r1].id].wallet_balance = 0

\* C2: of two concurrent transfers from one sender, each of the sender's
\* whole balance and each to a different recipient, at most one returns
\* success, and the sender's final balance is not negative.
AtMostOneWholeBalanceTransfer ==
    \A r1, r2 \in Reqs :
        ( /\ r1 # r2 /\ <<r1, r2>> \in concurrent
          /\ Done(r1) /\ Done(r2) /\ IsSend(r1) /\ IsSend(r2)
          /\ request[r1].sub = request[r2].sub
          /\ request[r1].amount = before[r1].users[IdOf(request[r1].sub)].wallet_balance
          /\ request[r2].amount = before[r2].users[IdOf(request[r2].sub)].wallet_balance
          /\ request[r1].amount > 0
          /\ IdOf(request[r1].recipient_username) # 0
          /\ IdOf(request[r2].recipient_username) # 0
          /\ IdOf(request[r1].recipient_username) # IdOf(request[r2].recipient_username)
          /\ IdOf(request[r1].sub) \notin {IdOf(request[r1].recipient_username),
                                          IdOf(request[r2].recipient_username)} )
        => /\ ~(Ok(r1) /\ Ok(r2))
           /\ users[IdOf(request[r1].sub)].wallet_balance >= 0

\* C3: with transfers only, once every request has returned the sum of all
\* balances equals the sum before the first request.
TransfersConserveSum ==
    (Quiescent /\ \A r \in Reqs : ~IsTopup(r))
        => SumBalances(users) = InitialSum

\* C5: once every request has returned, the sum of all balances is the
\* initial sum plus the amounts of the top-ups that returned success.
SumGrowsByTopups ==
    Quiescent =>
        SumBalances(users) = InitialSum +
            SumOver({r \in Reqs : Ok(r) /\ IsTopup(r)},
                    [r \in Reqs |-> request[r].amount])

\* The effects of a transfer that have been applied to the store.
SenderDebited(r) == IsSend(r) /\ writes[r] >= 1

RecipientCredited(r) == IsSend(r) /\ writes[r] >= 2

RecordAppended(r) == IsSend(r) /\ writes[r] >= 3

\* C6: in every reachable state each transfer has applied all three of its
\* effects (debit, credit, record) or none of them.
TransferAtomic ==
    \A r \in Reqs :
        /\ SenderDebited(r) <=> RecipientCredited(r)
        /\ SenderDebited(r) <=> RecordAppended(r)

\* C4: a successful transfer of a from S to R with no other request
\* interleaved lowers S's balance by a, raises R's by a, leaves every other
\* account unchanged and appends exactly one record (S, R, a).
TransferFrame ==
    \A r \in Reqs :
        (Ok(r) /\ IsSend(r) /\ Alone(r)) =>
            LET S == IdOf(request[r].sub)
                R == IdOf(request[r].recipient_username)
                a == request[r].amount
                b == before[r]
                f == after[r]
                n == Len(b.transactions)
            IN  /\ S # 0 /\ R # 0 /\ S # R
                /\ DOMAIN f.users = DOMAIN b.users
                /\ f.users[S].wallet_balance = b.users[S].wallet_balance - a
                /\ f.users[R].wallet_balance = b.users[R].wallet_balance + a
                /\ \A i \in DOMAIN b.users \ {S, R} : f.users[i] = b.users[i]
                /\ Len(f.transactions) = n + 1
                /\ SubSeq(f.transactions, 1, n) = b.transactions
                /\ f.transactions[n + 1].from_user = S
                /\ f.transactions[n + 1].to_user = R
                /\ f.transactions[n + 1].amount = a

\* A transfer that ran alone has returned success.
TransferFrameWitness ==
    \E r \in Reqs : Ok(r) /\ IsSend(r) /\ Alone(r) /\ request[r].amount > 0

\* The requests of `order` handled one at a time, from state st.
RECURSIVE SerialRun(_, _)
SerialRun(st, order) ==
    IF order = <<>> THEN st
    ELSE LET h == Handle(st.users, request[Head(order)])
         IN  SerialRun([users |-> h.users,
                        ok |-> IF h.ok THEN st.ok \cup {Head(order)} ELSE st.ok],
                       Tail(order))

\* The serial reference agrees with the handlers on a request that ran alone.
SerialReferenceAgrees ==
    \A r \in Reqs :
        (Done(r) /\ Alone(r)) =>
            /\ Handle(before[r].users, request[r]).users = after[r].users
            /\ Handle(before[r].users, request[r]).ok = Ok(r)

\* C7: for every concurrent execution, the requests that succeeded and the
\* final balances are those of executing the same requests one at a time in
\* some order.
Serializable ==
    Quiescent =>
        LET S == {r \in Reqs : Done(r)}
        IN  \E o \in Orders(S) :
                LET f == SerialRun([users |-> InitUsers, ok |-> {}], o)
                IN  f.users = users /\ f.ok = {r \in S : Ok(r)}

\* The first violated condition of a transfer in the specification's order.
SpecOrderError(r) ==
    LET a == request[r].amount
        cu == current_user[r]
        rid == IdOf(request[r].recipient_username)
    IN  IF a <= 0 THEN InvalidAmount
        ELSE IF rid = 0 THEN RecipientNotFound
        ELSE IF rid = cu.id THEN SelfTransfer
        ELSE IF cu.wallet_balance < a THEN InsufficientFunds
        ELSE "success"

\* The first violated condition of a transfer with the balance check second.
CodeOrderError(r) ==
    LET a == request[r].amount
        cu == current_user[r]
        rid == IdOf(request[r].recipient_username)
    IN  IF a <= 0 THEN InvalidAmount
        ELSE IF cu.wallet_balance < a THEN InsufficientFunds
        ELSE IF rid = 0 THEN RecipientNotFound
        ELSE IF rid = cu.id THEN SelfTransfer
        ELSE "success"

\* C8 as stated: a rejected transfer returns the first violated condition in
\* the order InvalidAmount, RecipientNotFound, SelfTransfer, InsufficientFunds.
ErrorPrecedenceOfSpec ==
    \A r \in Reqs :
        (Rejected(r) /\ IsSend(r)) => response[r].detail = SpecOrderError(r)

\* C8 amended: a transfer returns the first violated condition in the order
\* InvalidAmount, InsufficientFunds, RecipientNotFound, SelfTransfer (and
\* success when none is violated).
ErrorPrecedenceOfCode ==
    \A r \in Reqs :
        (Done(r) /\ IsSend(r)) => response[r].detail = CodeOrderError(r)

\* A transfer of more than the sender's balance to a username without an
\* account has been rejected.
ErrorPrecedenceWitness ==
    \E r \in Reqs :
        /\ Rejected(r) /\ IsSend(r)
        /\ request[r].amount > current_user[r].wallet_balance
        /\ IdOf(request[r].recipient_username) = 0

\* A transfer whose recipient username is the caller's own.
ToSelf(r) == IsSend(r) /\ request[r].recipient_username = request[r].sub

\* C9 as stated: a transfer to the caller's own username fails with
\* SelfTransfer whatever the amount and the balance, and changes nothing.
SelfTransferAlwaysSelfTransfer ==
    \A r \in Reqs :
        (Done(r) /\ ToSelf(r)) =>
            /\ response[r].detail = SelfTransfer
            /\ writes[r] = 0
            /\ Alone(r) => after[r] = before[r]

\* C9 amended: a transfer to the caller's own username always fails and
\* changes nothing; the error is InvalidAmount when amount <= 0,
\* InsufficientFunds when the amount exceeds the balance the request read,
\* and SelfTransfer otherwise.
SelfTransferAlwaysRejected ==
    \A r \in Reqs :
        (Done(r) /\ ToSelf(r)) =>
            /\ Rejected(r)
            /\ response[r].detail =
                  IF request[r].amount <= 0 THEN InvalidAmount
                  ELSE IF current_user[r].wallet_balance < request[r].amount
                       THEN InsufficientFunds
                  ELSE SelfTransfer
            /\ writes[r] = 0
            /\ Alone(r) => after[r] = before[r]

\* A transfer to the caller's own username was rejected as a self-transfer.
SelfTransferWitness ==
    \E r \in Reqs :
        Done(r) /\ ToSelf(r) /\ response[r].detail = SelfTransfer

\* C10: a rejected top-up or transfer performs no write, leaves the
\* collections as they were when it arrived, and the same request submitted
\* again against the same collections is rejected with the same error.
RejectedLeavesStore ==
    \A r \in Reqs :
        Rejected(r) =>
            /\ writes[r] = 0
            /\ Alone(r) => after[r] = before[r]
            /\ \A q \in Reqs :
                  ( /\ Done(q) /\ Alone(q) /\ Alone(r)
                    /\ request[q] = request[r]
                    /\ before[q] = before[r] )
                  => response[q] = response[r]

\* The same invalid request was submitted twice in sequence against the same
\* collections and rejected both times.
RejectedLeavesStoreWitness ==
    \E q, r \in Reqs :
        /\ q # r /\ Rejected(q) /\ Rejected(r) /\ Alone(q) /\ Alone(r)
        /\ request[q] = request[r] /\ before[q] = before[r]
        /\ response[q].detail \in {InvalidAmount, RecipientNotFound, SelfTransfer}

-----------------------------------------------------------------------------
\* C11: a successful top-up of a > 0 by A with no other request interleaved
\* raises A's balance by a, leaves every other account unchanged, appends
\* exactly one record (system, A, top-up, completed) and returns the balance
\* a following profile read of A reports.
TopupFrame ==
    \A r \in Reqs :
        (Ok(r) /\ IsTopup(r) /\ Alone(r)) =>
            LET A == IdOf(request[r].sub)
                a == request[r].amount
                b == before[r]
                f == after[r]
                n == Len(b.transactions)
            IN  /\ A # 0 /\ a > 0
                /\ DOMAIN f.users = DOMAIN b.users
                /\ f.users[A].wallet_balance = b.users[A].wallet_balance + a
                /\ \A i \in DOMAIN b.users \ {A} : f.users[i] = b.users[i]
                /\ Len(f.transactions) = n + 1
                /\ SubSeq(f.transactions, 1, n) = b.transactions
                /\ f.transactions[n + 1].from_user = System
                /\ f.transactions[n + 1].to_user = A
                /\ f.transactions[n + 1].amount = a
                /\ f.transactions[n + 1].type = "topup"
                /\ f.transactions[n + 1].status = "completed"
                /\ response[r].new_balance =
                       get_profile(f.users, request[r].sub).wallet_balance

\* A top-up that ran alone has returned success.
TopupFrameWitness ==
    \E r \in Reqs : Ok(r) /\ IsTopup(r) /\ Alone(r)

\* C18: the ledger is append-only: across every step each record already in
\* the ledger stays at its place with all its fields unchanged.
LedgerAppendOnly ==
    [][\A i \in DOMAIN transactions :
          i \in DOMAIN transactions' /\ transactions'[i] = transactions[i]]_vars

\* A record was appended to a ledger that already held one.
LedgerAppendOnlyWitness ==
    Len(transactions) >= 2

\* The ledger holds the record request r inserted.
RecordInLedger(r) ==
    \E i \in DOMAIN transactions :
        /\ transactions[i].amount = request[r].amount
        /\ transactions[i].to_user =
              IF IsSend(r) THEN recipient[r].id ELSE current_user[r].id
        /\ transactions[i].from_user =
              IF IsSend(r) THEN current_user[r].id ELSE System

\* C19: when a transfer or top-up returns success its record is in the ledger
\* and the balance it returns is the caller's stored balance immediately
\* before the request's balance write, minus (transfer) or plus (top-up) the
\* amount.
ReturnedBalanceIsFresh ==
    \A r \in Reqs :
        (Ok(r) /\ (IsSend(r) \/ IsTopup(r))) =>
            /\ RecordInLedger(r)
            /\ response[r].new_balance =
                  IF IsSend(r) THEN prewrite[r] - request[r].amount
                  ELSE prewrite[r] + request[r].amount

IsHistory(r) == request[r].endpoint = "history"

\* The account a request acts for.
Viewer(r) == current_user[r].id

\* The ledger records that account A sent or received.
Touching(A) ==
    {i \in DOMAIN transactions : transactions[i].from_user = A \/ transactions[i].to_user = A}

\* The ledger records a history response lists.
Listed(r) == {response[r].history[k].id : k \in DOMAIN response[r].history}

\* C12: a top-up of account A is listed in History(A) with type "topup", so
\* after A has topped up at least once History(A) has an entry of that type.
OwnTopupTaggedTopup ==
    \A r \in Reqs : (IsHistory(r) /\ Ok(r)) =>
        LET h == response[r].history
        IN  /\ \A k \in DOMAIN h :
                  (transactions[h[k].id].type = "topup" /\ transactions[h[k].id].to_user = Viewer(r))
                      => h[k].type = "topup"
            /\ (\E i \in Touching(Viewer(r)) : transactions[i].type = "topup")
                  => \E k \in DOMAIN h : h[k].type = "topup"

\* C13: a transfer from S to R is listed with type "send" in History(S) and
\* with type "receive" in History(R); the type of an entry depends only on
\* the record and on the account that asks.
TransferTags ==
    /\ \A r \in Reqs : (IsHistory(r) /\ Ok(r)) =>
          \A k \in DOMAIN response[r].history :
             LET e == response[r].history[k]
                 txn == transactions[e.id]
             IN  txn.type = "send" =>
                    /\ txn.from_user = Viewer(r) => e.type = "send"
                    /\ txn.to_user = Viewer(r) => e.type = "receive"
    /\ \A q, r \in Reqs : (IsHistory(q) /\ Ok(q) /\ IsHistory(r) /\ Ok(r) /\ Viewer(q) = Viewer(r)) =>
          \A j \in DOMAIN response[q].history, k \in DOMAIN response[r].history :
             response[q].history[j].id = response[r].history[k].id
                => response[q].history[j].type = response[r].history[k].type

\* One transfer listed to its sender as "send" and to its recipient as "receive".
TransferTagsWitness ==
    \E q, r \in Reqs :
        /\ IsHistory(q) /\ Ok(q) /\ IsHistory(r) /\ Ok(r)
        /\ \E j \in DOMAIN response[q].history, k \in DOMAIN response[r].history :
              /\ response[q].history[j].id = response[r].history[k].id
              /\ transactions[response[q].history[j].id].type = "send"
              /\ transactions[response[q].history[j].id].from_user = Viewer(q)
              /\ transactions[response[q].history[j].id].to_user = Viewer(r)
              /\ response[q].history[j].type = "send"
              /\ response[r].history[k].type = "receive"

HistoryNewestFirst ==
    \A r \in Reqs : (IsHistory(r) /\ Ok(r)) =>
        LET h == response[r].history
        IN  /\ \A k \in 1..(Len(h) - 1) : h[k].timestamp >= h[k + 1].timestamp
            /\ \A j, k \in DOMAIN h : h[j].id < h[k].id => k < j

IsRegister(r) == request[r].endpoint = "register"

\* C16: no two accounts share a username, also when two registrations for one
\* username run concurrently; a registration for a taken username is
\* rejected and creates nothing.
UsernamesUnique ==
    /\ \A i, j \in DOMAIN users : users[i].username = users[j].username => i = j
    /\ \A r \in Reqs :
          (IsRegister(r) /\ Done(r) /\ find_one(before[r].users, request[r].username) # None)
             => /\ Rejected(r)
                /\ response[r].detail = "Username already exists"
                /\ Alone(r) => after[r] = before[r]

\* C17: a registration creates exactly one account, with balance 1000 and
\* reputation 75, appends no ledger record and changes no existing account;
\* a ledger record names only accounts that existed when it was written.
RegistrationCreatesOneAccount ==
    /\ [](\A r \in Reqs : (IsRegister(r) /\ Ok(r)) =>
            /\ writes[r] = 1
            /\ response[r].user = [username |-> request[r].username,
                                   wallet_balance |-> StartingBalance,
                                   reputation_score |-> StartingReputation]
            /\ Alone(r) =>
                  /\ after[r].users = Append(before[r].users, response[r].user)
                  /\ after[r].transactions = before[r].transactions)
    /\ [][/\ Len(users') \in {Len(users), Len(users) + 1}
          /\ \A i \in DOMAIN users : users'[i].username = users[i].username
          /\ Len(users') = Len(users) + 1 =>
                /\ users'[Len(users')].wallet_balance = StartingBalance
                /\ users'[Len(users')].reputation_score = StartingReputation
                /\ transactions' = transactions
                /\ \A i \in DOMAIN users : users'[i] = users[i]
          /\ \A i \in DOMAIN transactions' \ DOMAIN transactions :
                /\ transactions'[i].to_user \in DOMAIN users
                /\ transactions'[i].from_user \in DOMAIN users \cup {System}]_vars

\* A registration on its own, and a ledger record that names the new account.
RegistrationCreatesOneAccountWitness ==
    \E r \in Reqs :
        /\ IsRegister(r) /\ Ok(r) /\ Alone(r)
        /\ Len(after[r].users) = Len(Registered) + 1
        /\ \E i \in DOMAIN transactions : transactions[i].to_user = Len(Registered) + 1

IsRead(r) == request[r].endpoint \in {"profile", "search", "history"}

\* C21: the read operations (profile, user search, transaction history)
\* change no balance, no account attribute and no ledger record, whether
\* they succeed or fail: no step of a read request changes a collection, and
\* a read with no other request in flight returns with the collections as it
\* found them.
ReadsChangeNothing ==
    /\ [](\A r \in Reqs : (IsRead(r) /\ Done(r)) =>
            /\ writes[r] = 0
            /\ Alone(r) => after[r] = before[r])
    /\ [][\A r \in Reqs :
            (request'[r].endpoint \in {"profile", "search", "history"} /\ pc'[r] # pc[r])
               => (users' = users /\ transactions' = transactions)]_vars

\* A read that succeeded and a search that found no user.
ReadsChangeNothingWitness ==
    \E q, r \in Reqs :
        /\ IsRead(q) /\ Ok(q)
        /\ IsRead(r) /\ Rejected(r) /\ response[r].status_code = 404

\* C22: with no other request interleaved, a transfer to an existing other
\* account is rejected with InsufficientFunds exactly when the sender's
\* balance is strictly less than the amount; a transfer of the whole balance
\* succeeds and leaves the sender at 0, and a larger amount is rejected.
InsufficientFundsBoundary ==
    \A r \in Reqs :
        (/\ IsSend(r) /\ Done(r) /\ Alone(r)
         /\ find_one(before[r].users, request[r].recipient_username) # None
         /\ request[r].recipient_username # request[r].sub) =>
            LET balance == find_one(before[r].users, request[r].sub).wallet_balance
                amount == request[r].amount
            IN  /\ (Rejected(r) /\ response[r].detail = InsufficientFunds) <=> balance < amount
                /\ (amount > 0 /\ balance = amount) =>
                      /\ Ok(r)
                      /\ find_one(after[r].users, request[r].sub).wallet_balance = 0
                /\ amount > balance => (Rejected(r) /\ after[r] = before[r])

\* A transfer of the whole balance that left the sender at 0, and the next
\* transfer of the same sender rejected for its balance.
InsufficientFundsBoundaryWitness ==
    \E q, r \in Reqs :
        /\ IsSend(q) /\ Ok(q) /\ Alone(q)
        /\ request[q].amount = find_one(before[q].users, request[q].sub).wallet_balance
        /\ find_one(after[q].users, request[q].sub).wallet_balance = 0
        /\ IsSend(r) /\ Rejected(r) /\ Alone(r)
        /\ request[r].sub = request[q].sub
        /\ response[r].detail = InsufficientFunds
        /\ find_one(before[r].users, request[r].sub).wallet_balance < request[r].amount

\* C23: every record in the ledger, in every reachable state, has status
\* completed and a positive amount, is a top-up exactly when its sender is
\* the system sentinel, and as a transfer has a sender and a recipient that
\* are two distinct existing accounts.
LedgerWellFormed ==
    \A i \in DOMAIN transactions :
        LET txn == transactions[i]
        IN  /\ txn.status = "completed"
            /\ txn.amount > 0
            /\ txn.type \in {"topup", "send"}
            /\ txn.type = "topup" <=> txn.from_user = System
            /\ txn.to_user \in DOMAIN users
            /\ txn.type = "send" =>
                  /\ txn.from_user \in DOMAIN users
                  /\ txn.from_user # txn.to_user

\* A ledger with a top-up record and a transfer record.
LedgerWellFormedWitness ==
    \E i, j \in DOMAIN transactions :
        /\ transactions[i].type = "topup"
        /\ transactions[j].type = "send"

\* C24: when two records listed by History(A) have equal timestamps, the one
\* inserted later is listed first.
TiesLaterInsertedFirst ==
    \A r \in Reqs : (IsHistory(r) /\ Ok(r)) =>
        LET h == response[r].history
        IN  \A j, k \in DOMAIN h :
               (j < k /\ h[j].timestamp = h[k].timestamp) => h[j].id > h[k].id

\* Request r is request q submitted again: the same transfer, started when
\* q had returned and nothing had been written since, each with no other
\* request in flight, and both passed the checks.
Resubmitted(q, r) ==
    /\ q # r
    /\ IsSend(q) /\ IsSend(r) /\ request[q] = request[r]
    /\ Ok(q) /\ Ok(r) /\ Alone(q) /\ Alone(r)
    /\ before[r] = after[q]

\* C25: a transfer is not idempotent: the same valid transfer submitted
\* twice in sequence debits the sender twice, credits the recipient twice
\* and appends two distinct records.
TransferNotIdempotent ==
    \A q, r \in Reqs : Resubmitted(q, r) =>
        LET amount == request[q].amount
            sender == request[q].sub
            rcp == request[q].recipient_username
            n == Len(before[q].transactions)
        IN  /\ find_one(after[r].users, sender).wallet_balance
                  = find_one(before[q].users, sender).wallet_balance - 2 * amount
            /\ find_one(after[r].users, rcp).wallet_balance
                  = find_one(before[q].users, rcp).wallet_balance + 2 * amount
            /\ Len(after[r].transactions) = n + 2
            /\ \A i \in {n + 1, n + 2} :
                  /\ after[r].transactions[i].type = "send"
                  /\ after[r].transactions[i].amount = amount
                  /\ after[r].transactions[i].from_user = find_one(before[q].users, sender).id
                  /\ after[r].transactions[i].to_user = find_one(before[q].users, rcp).id

\* A transfer of half the balance submitted twice, both accepted.
TransferNotIdempotentWitness ==
    \E q, r \in Reqs :
        /\ Resubmitted(q, r)
        /\ find_one(after[r].users, request[r].sub).wallet_balance = 0

\* C26: ledger and balances reconcile: when no request is in progress, each
\* account's stored balance is its starting balance plus the amounts of the
\* records it received minus the amounts of the records it sent, for any
\* interleaving of the requests that produced the state.
LedgerReconciles ==
    Quiescent =>
        \A i \in DOMAIN users :
            users[i].wallet_balance =
                StartingBalance
                + SumOver({k \in DOMAIN transactions : transactions[k].to_user = i},
                          [k \in DOMAIN transactions |-> transactions[k].amount])
                - SumOver({k \in DOMAIN transactions : transactions[k].from_user = i},
                          [k \in DOMAIN transactions |-> transactions[k].amount])

\* C27: within one operation the ledger record is written last: the step
\* that appends a record is taken by a request that has already applied its
\* balance writes (sender and recipient for a transfer, the caller's for a
\* top-up), and the request returns with that step.
RecordWrittenLast ==
    [][\A r \in Reqs :
          (Len(transactions') > Len(transactions) /\ pc'[r] # pc[r]) =>
             /\ Len(transactions') = Len(transactions) + 1
             /\ IsSend(r) => (writes[r] = 2 /\ pc[r] = "credited")
             /\ IsTopup(r) => (writes[r] = 1 /\ pc[r] = "updated")
             /\ pc'[r] = "done"
             /\ users' = users]_vars

\* The record of a transfer and the record of a top-up in the ledger, both
\* requests returned.
RecordWrittenLastWitness ==
    \E q, r \in Reqs :
        /\ IsSend(q) /\ Ok(q) /\ writes[q] = 3
        /\ IsTopup(r) /\ Ok(r) /\ writes[r] = 2
        /\ Len(transactions) = 2

\* C20: under fair scheduling every request that has started eventually
\* returns; transfers in opposite directions do not block each other.
EventuallyReturns ==
    \A r \in Reqs : InFlight(r) ~> Done(r)

\* Two transfers in opposite directions between one pair of accounts were in
\* flight together and both have returned.
EventuallyReturnsWitness ==
    \E r1, r2 \in Reqs :
        /\ <<r1, r2>> \in concurrent
        /\ Ok(r1) /\ Ok(r2) /\ IsSend(r1) /\ IsSend(r2)
        /\ current_user[r1].id = recipient[r2].id
        /\ current_user[r2].id = recipient[r1].id

====
